---- MODULE Spec2Model ----
(***************************************************************************)
(* ANDRTF3 temperature sensor driver (ANDRTF3.h / ANDRTF3.cpp).            *)
(*                                                                         *)
(* The driver's member functions are written as sequences of the source's  *)
(* statements.  A call holds the statements it still has to run (todo);    *)
(* Exec runs one statement.  Under Spec, SpecClassify and SpecResponses a   *)
(* single caller runs every call to its return in one action; under        *)
(* SpecTasks two tasks interleave their calls statement by statement (the  *)
(* driver takes no lock).                                                  *)
(***************************************************************************)
EXTENDS Integers, Sequences, FiniteSets, TLC

VARIABLES
    config,                     \* _config
    serverAddress,              \* QueuedModbusDevice's address (getServerAddress())
    lastReading,                \* _lastReading: celsius, timestamp, valid, error
    connected,                  \* _connected
    asyncPending,               \* _asyncPending
    asyncStartTime,             \* _asyncStartTime
    temperaturePtr,             \* _temperaturePtr
    validityPtr,                \* _validityPtr
    consecutive0x0000Errors,    \* _consecutive0x0000Errors (uint8_t)
    lastErrorTime,              \* _lastErrorTime
    tempCell,                   \* the application's int16_t cells
    validCell,                  \* the application's bool cells
    now,                        \* millis()
    ticks,                      \* clock advances so far
    call                        \* per task: the call it runs or ran last

vars == << config, serverAddress, lastReading, connected, asyncPending,
           asyncStartTime, temperaturePtr, validityPtr, consecutive0x0000Errors,
           lastErrorTime, tempCell, validCell, now, ticks, call >>

-----------------------------------------------------------------------------
(* Program constants *)

\* Mutant of TEMP_REGISTER: the register's one-based number
TEMP_REGISTER_OneBased == 50 + 1

TEMP_REGISTER == 50
FUNCTION_CODE == 4
REGISTER_COUNT == 1
TEMP_MIN == -400
TEMP_MAX == 1250

(* Bounds of the model *)

MaxTicks == 1
MaxErrors == 3

(* Integer widths *)

Mod8 == 2^8
Mod16 == 2^16

\* A uint32_t is written as its two 16-bit halves << high, low >>, which keeps
\* the arithmetic exact modulo 2^32.
U32(high, low) == << high, low >>

Zero32 == U32(0, 0)

\* a + n in uint32_t arithmetic, for 0 <= n < 2^16
Add32(a, n) == U32((a[1] + ((a[2] + n) \div Mod16)) % Mod16, (a[2] + n) % Mod16)

\* a - b in uint32_t arithmetic
Sub32(a, b) ==
    LET borrow == IF a[2] < b[2] THEN 1 ELSE 0
    IN  U32((a[1] - b[1] - borrow + (2 * Mod16)) % Mod16,
            (a[2] - b[2] + Mod16) % Mod16)

\* a > n for a uint32_t a and a uint16_t n
Gt32(a, n) == a[1] > 0 \/ a[2] > n

\* static_cast<int16_t>(uint16_t)
ToInt16(u) == IF u >= 2^15 THEN u - Mod16 ELSE u

\* static_cast<uint16_t>(int16_t)
ToUint16(v) == IF v < 0 THEN v + Mod16 ELSE v

-----------------------------------------------------------------------------
(* Inputs *)

NULL == "nullptr"
Cells == {"cellA", "cellB"}
Tasks == {"task1", "task2"}
MainTask == "task1"

\* Clock advances offered to Tick, in milliseconds
TickSteps == {1}

ModbusErrors == {"TIMEOUT", "CRC_ERROR"}

Failure(e) == [ok |-> FALSE, error |-> e, values |-> << >>]
Registers(vs) == [ok |-> TRUE, error |-> "SUCCESS", values |-> vs]

\* ModbusResult<std::vector<uint16_t>> of readInputRegistersWithPriority, for
\* the raw register values in raws
ResultsOf(raws) ==
    {Failure(e) : e \in ModbusErrors} \cup {Registers(<< >>)}
        \cup {Registers(<< r >>) : r \in raws}

\* Raw register values of the cycles under Spec: the two error codes, a value
\* below the range (-401), the range's upper end and a mid-range value (264).
RawValues == {0, 65535, 65135, 1250, 264}

\* Raw register values under SpecClassify: the error codes and their
\* neighbours (1, -2), the range's two ends (-400, 1250) and their outer
\* neighbours (-401, 1251), the int16_t extremes and 264.
BoundaryRawValues ==
    {0, 1, 65534, 65535, 65136, 65135, 1250, 1251, 32767, 32768, 264}

\* No result yet
NoResult == [ok |-> FALSE, error |-> "NONE", values |-> << >>]

\* Payloads handed to onAsyncResponse (length is the payload's length):
\* too short, 0x0000, 1251 and 264
Payloads == {<< 1 >>, << 0, 0 >>, << 4, 227 >>, << 1, 8 >>}

Response(fc, a, data) == [functionCode |-> fc, address |-> a, data |-> data]

\* The device's own responses, and two that are not its temperature read
Responses ==
    {Response(FUNCTION_CODE, TEMP_REGISTER, data) : data \in Payloads}
        \cup {Response(3, TEMP_REGISTER, << 1, 8 >>),
              Response(FUNCTION_CODE, 51, << 1, 8 >>)}

\* Pointer pairs handed to bindTemperaturePointers
Bindings == {<< NULL, NULL >>, << "cellA", "cellA" >>}

NoResponse == [functionCode |-> 0, address |-> 0, data |-> << >>]

-----------------------------------------------------------------------------
(* Helpers of the source *)

\* Mutant of modbusErrorToString: INVALID_ADDRESS has the text of
\* ILLEGAL_DATA_ADDRESS
modbusErrorToString_Duplicate(error) ==
    CASE error = "SUCCESS" -> "Success"
      [] error = "ILLEGAL_FUNCTION" -> "Illegal function"
      [] error = "ILLEGAL_DATA_ADDRESS" -> "Illegal data address"
      [] error = "ILLEGAL_DATA_VALUE" -> "Illegal data value"
      [] error = "SLAVE_DEVICE_FAILURE" -> "Slave device failure"
      [] error = "TIMEOUT" -> "Timeout"
      [] error = "CRC_ERROR" -> "CRC error"
      [] error = "INVALID_RESPONSE" -> "Invalid response"
      [] error = "QUEUE_FULL" -> "Queue full"
      [] error = "NOT_INITIALIZED" -> "Not initialized"
      [] error = "COMMUNICATION_ERROR" -> "Communication error"
      [] error = "INVALID_PARAMETER" -> "Invalid parameter"
      [] error = "RESOURCE_ERROR" -> "Resource error"
      [] error = "NULL_POINTER" -> "Null pointer"
      [] error = "NOT_SUPPORTED" -> "Not supported"
      [] error = "MUTEX_ERROR" -> "Mutex error"
      [] error = "INVALID_DATA_LENGTH" -> "Invalid data length"
      [] error = "DEVICE_NOT_FOUND" -> "Device not found"
      [] error = "RESOURCE_CREATION_FAILED" -> "Resource creation failed"
      [] error = "INVALID_ADDRESS" -> "Illegal data address"
      [] OTHER -> "Unknown error"

modbusErrorToString(error) ==
    CASE error = "SUCCESS" -> "Success"
      [] error = "ILLEGAL_FUNCTION" -> "Illegal function"
      [] error = "ILLEGAL_DATA_ADDRESS" -> "Illegal data address"
      [] error = "ILLEGAL_DATA_VALUE" -> "Illegal data value"
      [] error = "SLAVE_DEVICE_FAILURE" -> "Slave device failure"
      [] error = "TIMEOUT" -> "Timeout"
      [] error = "CRC_ERROR" -> "CRC error"
      [] error = "INVALID_RESPONSE" -> "Invalid response"
      [] error = "QUEUE_FULL" -> "Queue full"
      [] error = "NOT_INITIALIZED" -> "Not initialized"
      [] error = "COMMUNICATION_ERROR" -> "Communication error"
      [] error = "INVALID_PARAMETER" -> "Invalid parameter"
      [] error = "RESOURCE_ERROR" -> "Resource error"
      [] error = "NULL_POINTER" -> "Null pointer"
      [] error = "NOT_SUPPORTED" -> "Not supported"
      [] error = "MUTEX_ERROR" -> "Mutex error"
      [] error = "INVALID_DATA_LENGTH" -> "Invalid data length"
      [] error = "DEVICE_NOT_FOUND" -> "Device not found"
      [] error = "RESOURCE_CREATION_FAILED" -> "Resource creation failed"
      [] error = "INVALID_ADDRESS" -> "Invalid address"
      [] OTHER -> "Unknown error"

getDefaultConfig == [address |-> 3, timeout |-> 200, retries |-> 3]

\* Mutant of IsErrorCode: 0x0000 is not taken as an error code
IsErrorCode_OnlyFFFF(raw) == raw = 65535

\* rawValue == 0 || values[0] == 0xFFFF
IsErrorCode(raw) == ToInt16(raw) = 0 \/ raw = 65535

\* Mutant of OutOfRange: the lower end is excluded
OutOfRange_ExclusiveMin(rawValue) == rawValue <= TEMP_MIN \/ rawValue > TEMP_MAX

\* rawValue < TEMP_MIN || rawValue > TEMP_MAX
OutOfRange(rawValue) == rawValue < TEMP_MIN \/ rawValue > TEMP_MAX

\* (_consecutive0x0000Errors < 3)
ConnectedAfterErrors(n) == n < 3

\* Mutant of TimedOut: a cycle counts as timed out at the timeout itself
TimedOut_AtTimeout(t, start, timeout) ==
    Gt32(Sub32(t, start), timeout) \/ Sub32(t, start) = U32(0, timeout)

\* Mutant of TimedOut: the timeout is taken as seconds
TimedOut_Seconds(t, start, timeout) ==
    \/ Sub32(t, start)[1] > 3
    \/ (Sub32(t, start)[1] * Mod16) + Sub32(t, start)[2] > timeout * 1000

\* Mutant of TimedOut: the time is compared with the deadline start + timeout
\* computed without wrap-around
TimedOut_Deadline(t, start, timeout) ==
    LET high == start[1] + ((start[2] + timeout) \div Mod16)
        low == (start[2] + timeout) % Mod16
    IN  t[1] > high \/ (t[1] = high /\ t[2] > low)

\* (millis() - _asyncStartTime) > _config.timeout
TimedOut(t, start, timeout) == Gt32(Sub32(t, start), timeout)

-----------------------------------------------------------------------------
(* Statements.  k is the statement, n and t its integer and text operands. *)

S(k) == [k |-> k, n |-> 0, t |-> ""]
SN(k, n) == [k |-> k, n |-> n, t |-> ""]
ST(k, t) == [k |-> k, n |-> 0, t |-> t]

\* Mutant of requestTemperatureFailed: every error reads "Timeout"
requestTemperatureFailed_OneText(error) ==
    << S("_asyncPending.store(false)"),
       S("_lastReading.valid = false"),
       ST("_lastReading.error =", "Timeout"),
       S("_connected = false"),
       S("return false") >>

\* requestTemperature, lines 93-101: the transport reports an error
requestTemperatureFailed(error) ==
    << S("_asyncPending.store(false)"),
       S("_lastReading.valid = false"),
       ST("_lastReading.error =", modbusErrorToString(error)),
       S("_connected = false"),
       S("return false") >>

\* requestTemperature, lines 103-111: the reply holds no register
requestTemperatureEmpty ==
    << S("_asyncPending.store(false)"),
       S("_lastReading.valid = false"),
       ST("_lastReading.error =", "No data returned"),
       S("_connected = false"),
       S("return false") >>

\* requestTemperature, lines 116-137: the register holds an error code
requestTemperatureErrorCode(raw) ==
    << S("_consecutive0x0000Errors++"),
       S("_asyncPending.store(false)"),
       S("_lastReading.valid = false"),
       ST("_lastReading.error =",
          IF raw = 65535 THEN "Modbus error 0xFFFF" ELSE "Sensor returned 0x0000"),
       S("_connected = (_consecutive0x0000Errors < 3)"),
       S("_lastErrorTime = millis()"),
       S("return false") >>

\* Mutant of requestTemperatureOutOfRange: the flag is left set
requestTemperatureOutOfRange_KeepsPending ==
    << S("_lastReading.valid = false"),
       ST("_lastReading.error =", "Temperature out of range"),
       S("_connected = false"),
       S("return false") >>

\* requestTemperature, lines 140-147: the value is outside the range
requestTemperatureOutOfRange ==
    << S("_asyncPending.store(false)"),
       S("_lastReading.valid = false"),
       ST("_lastReading.error =", "Temperature out of range"),
       S("_connected = false"),
       S("return false") >>

\* requestTemperature, lines 149-167: the value is stored and published
requestTemperatureStore(rawValue) ==
    << SN("_lastReading.celsius =", rawValue),
       S("_lastReading.timestamp = millis()"),
       S("_lastReading.valid = true"),
       ST("_lastReading.error =", ""),
       S("_connected = true"),
       S("_consecutive0x0000Errors = 0"),
       SN("if (_temperaturePtr) *_temperaturePtr =", rawValue),
       S("if (_validityPtr) *_validityPtr = true"),
       S("_asyncPending.store(false)"),
       S("return true") >>

\* requestTemperature, lines 93-167: what follows the register read
requestTemperatureTail(result) ==
    IF ~result.ok THEN requestTemperatureFailed(result.error)
    ELSE IF result.values = << >> THEN requestTemperatureEmpty
    ELSE IF IsErrorCode(result.values[1])
         THEN requestTemperatureErrorCode(result.values[1])
    ELSE IF OutOfRange(ToInt16(result.values[1])) THEN requestTemperatureOutOfRange
    ELSE requestTemperatureStore(ToInt16(result.values[1]))

\* requestTemperature, lines 76-90
requestTemperature ==
    << S("if (pending && timed out)"),
       S("if (pending) return false"),
       S("_asyncPending.store(true)"),
       S("_asyncStartTime = millis()"),
       S("readInputRegistersWithPriority"),
       S("result: requestTemperature") >>

\* Mutant of performReadFailed: a transport error resets the error counter
performReadFailed_ResetsCounter(error) ==
    << S("_lastReading.valid = false"),
       ST("_lastReading.error =", modbusErrorToString(error)),
       S("_connected = false"),
       S("_consecutive0x0000Errors = 0"),
       S("success = false") >>

\* performRead, lines 196-203: the transport reports an error
performReadFailed(error) ==
    << S("_lastReading.valid = false"),
       ST("_lastReading.error =", modbusErrorToString(error)),
       S("_connected = false"),
       S("success = false") >>

\* performRead, lines 210-216: the reply holds no register
performReadEmpty ==
    << S("_lastReading.valid = false"),
       ST("_lastReading.error =", "No data returned"),
       S("_connected = false"),
       S("success = false") >>

\* Mutant of performReadErrorCode: the stored value is reset
performReadErrorCode_ResetsValue(raw) ==
    << S("_consecutive0x0000Errors++"),
       S("_lastReading.valid = false"),
       SN("_lastReading.celsius =", 0),
       ST("_lastReading.error =",
          IF raw = 65535 THEN "Modbus error 0xFFFF" ELSE "Sensor returned 0x0000"),
       S("_connected = (_consecutive0x0000Errors < 3)"),
       S("_lastErrorTime = millis()"),
       S("success = false") >>

\* performRead, lines 226-247: the register holds an error code
performReadErrorCode(raw) ==
    << S("_consecutive0x0000Errors++"),
       S("_lastReading.valid = false"),
       ST("_lastReading.error =",
          IF raw = 65535 THEN "Modbus error 0xFFFF" ELSE "Sensor returned 0x0000"),
       S("_connected = (_consecutive0x0000Errors < 3)"),
       S("_lastErrorTime = millis()"),
       S("success = false") >>

\* Mutant of performReadOutOfRange: the failure is reported as a success
performReadOutOfRange_ReturnsTrue ==
    << S("_lastReading.valid = false"),
       ST("_lastReading.error =", "Temperature out of range"),
       S("_connected = false"),
       S("success = true") >>

\* performRead, lines 250-256: the value is outside the range
performReadOutOfRange ==
    << S("_lastReading.valid = false"),
       ST("_lastReading.error =", "Temperature out of range"),
       S("_connected = false"),
       S("success = false") >>

\* Mutant of performReadStore: the error counter is not reset
performReadStore_KeepsCounter(rawValue) ==
    << SN("_lastReading.celsius =", rawValue),
       S("_lastReading.timestamp = millis()"),
       S("_lastReading.valid = true"),
       ST("_lastReading.error =", ""),
       S("_connected = true"),
       S("success = true") >>

\* performRead, lines 258-267: the value is stored
performReadStore(rawValue) ==
    << SN("_lastReading.celsius =", rawValue),
       S("_lastReading.timestamp = millis()"),
       S("_lastReading.valid = true"),
       ST("_lastReading.error =", ""),
       S("_connected = true"),
       S("_consecutive0x0000Errors = 0"),
       S("success = true") >>

\* performRead, lines 196-267: what follows the register read
performReadTail(result) ==
    IF ~result.ok THEN performReadFailed(result.error)
    ELSE IF result.values = << >> THEN performReadEmpty
    ELSE IF IsErrorCode(result.values[1]) THEN performReadErrorCode(result.values[1])
    ELSE IF OutOfRange(ToInt16(result.values[1])) THEN performReadOutOfRange
    ELSE performReadStore(ToInt16(result.values[1]))

\* Mutant of performRead: the read is issued a second time
performRead_ReadsAgain ==
    << S("readInputRegistersWithPriority"),
       S("readInputRegistersWithPriority"),
       S("result: performRead") >>

\* performRead, lines 188-191
performRead ==
    << S("readInputRegistersWithPriority"),
       S("result: performRead") >>

\* readTemperature, lines 62-70
readTemperature ==
    performRead \o << S("if (!success) _connected = false"),
                      S("return success") >>

\* handleReadComplete, lines 270-308
handleReadComplete(success, value) ==
    IF success THEN
        << SN("_lastReading.celsius =", value),
           S("_lastReading.timestamp = millis()"),
           S("_lastReading.valid = true"),
           ST("_lastReading.error =", ""),
           S("_connected = true"),
           SN("if (_temperaturePtr) *_temperaturePtr =", value),
           S("if (_validityPtr) *_validityPtr = true") >>
    ELSE
        << S("_lastReading.valid = false"),
           S("_connected = false"),
           S("if (_validityPtr) *_validityPtr = false") >>

\* Mutant of onAsyncResponse: the register address is not compared
onAsyncResponse_AnyAddress(functionCode, address, data) ==
    IF functionCode # FUNCTION_CODE THEN << >>
    ELSE
      (IF Len(data) >= 2 THEN
         LET rawValue == ToInt16((data[1] * 256) + data[2])
             unsignedValue == ToUint16(rawValue)
         IN  IF rawValue = 0 \/ unsignedValue = 65535 THEN
                 << S("_consecutive0x0000Errors++"),
                    S("_lastReading.valid = false"),
                    ST("_lastReading.error =",
                       IF unsignedValue = 65535 THEN "Modbus error 0xFFFF"
                                               ELSE "Sensor returned 0x0000"),
                    S("_connected = (_consecutive0x0000Errors < 3)"),
                    S("_lastErrorTime = millis()") >>
             ELSE
                 << S("_consecutive0x0000Errors = 0") >>
                     \o handleReadComplete(TRUE, rawValue)
       ELSE
         << S("_lastReading.valid = false"),
            ST("_lastReading.error =", "Invalid response length"),
            S("_connected = false") >>)
      \o << S("_asyncPending.store(false)") >>

\* Mutant of onAsyncResponse: a short response returns before the flag is
\* cleared
onAsyncResponse_ShortReturns(functionCode, address, data) ==
    IF functionCode # FUNCTION_CODE THEN << >>
    ELSE IF address # TEMP_REGISTER THEN << >>
    ELSE
      (IF Len(data) >= 2 THEN
         LET rawValue == ToInt16((data[1] * 256) + data[2])
             unsignedValue == ToUint16(rawValue)
         IN  IF rawValue = 0 \/ unsignedValue = 65535 THEN
                 << S("_consecutive0x0000Errors++"),
                    S("_lastReading.valid = false"),
                    ST("_lastReading.error =",
                       IF unsignedValue = 65535 THEN "Modbus error 0xFFFF"
                                               ELSE "Sensor returned 0x0000"),
                    S("_connected = (_consecutive0x0000Errors < 3)"),
                    S("_lastErrorTime = millis()") >>
             ELSE
                 << S("_consecutive0x0000Errors = 0") >>
                     \o handleReadComplete(TRUE, rawValue)
       ELSE
         << S("_lastReading.valid = false"),
            ST("_lastReading.error =", "Invalid response length"),
            S("_connected = false") >>)
      \o (IF Len(data) >= 2 THEN << S("_asyncPending.store(false)") >>
                            ELSE << >>)

\* onAsyncResponse, lines 311-366
onAsyncResponse(functionCode, address, data) ==
    IF functionCode # FUNCTION_CODE THEN << >>
    ELSE IF address # TEMP_REGISTER THEN << >>
    ELSE
      (IF Len(data) >= 2 THEN
         LET rawValue == ToInt16((data[1] * 256) + data[2])
             unsignedValue == ToUint16(rawValue)
         IN  IF rawValue = 0 \/ unsignedValue = 65535 THEN
                 << S("_consecutive0x0000Errors++"),
                    S("_lastReading.valid = false"),
                    ST("_lastReading.error =",
                       IF unsignedValue = 65535 THEN "Modbus error 0xFFFF"
                                               ELSE "Sensor returned 0x0000"),
                    S("_connected = (_consecutive0x0000Errors < 3)"),
                    S("_lastErrorTime = millis()") >>
             ELSE
                 << S("_consecutive0x0000Errors = 0") >>
                     \o handleReadComplete(TRUE, rawValue)
       ELSE
         << S("_lastReading.valid = false"),
            ST("_lastReading.error =", "Invalid response length"),
            S("_connected = false") >>)
      \o << S("_asyncPending.store(false)") >>

\* isReadComplete, lines 170-173
isReadComplete == << S("return !_asyncPending.load()") >>

\* Mutant of getAsyncResult: the call reports success whatever the Reading
getAsyncResult_ReturnsTrue ==
    << S("data = _lastReading"),
       S("return true") >>

\* getAsyncResult(data), lines 175-179
getAsyncResult ==
    << S("data = _lastReading"),
       S("return _lastReading.valid") >>

\* getTemperatureData, ANDRTF3.h
getTemperatureData == << S("return _lastReading") >>

-----------------------------------------------------------------------------
(* The device as a record, and one statement's effect on it *)

Dev ==
    [lastReading |-> lastReading, connected |-> connected,
     asyncPending |-> asyncPending, asyncStartTime |-> asyncStartTime,
     temperaturePtr |-> temperaturePtr, validityPtr |-> validityPtr,
     consecutive0x0000Errors |-> consecutive0x0000Errors,
     lastErrorTime |-> lastErrorTime, tempCell |-> tempCell,
     validCell |-> validCell, config |-> config,
     serverAddress |-> serverAddress, now |-> now]

Store(d) ==
    /\ lastReading' = d.lastReading
    /\ connected' = d.connected
    /\ asyncPending' = d.asyncPending
    /\ asyncStartTime' = d.asyncStartTime
    /\ temperaturePtr' = d.temperaturePtr
    /\ validityPtr' = d.validityPtr
    /\ consecutive0x0000Errors' = d.consecutive0x0000Errors
    /\ lastErrorTime' = d.lastErrorTime
    /\ tempCell' = d.tempCell
    /\ validCell' = d.validCell

\* No structure returned or found
Nothing == [nothing |-> TRUE]

\* A call: the function, the statements left, the transport's result, the
\* response handed in, the boolean returned, the register reads issued, the
\* other arguments, the structure returned, and _lastReading as a cycle found
\* it.
NewCall(fn, body, response) ==
    [fn |-> fn, todo |-> body, result |-> NoResult, response |-> response,
     ret |-> FALSE, reads |-> 0, bus |-> << >>, args |-> << >>,
     value |-> Nothing, entry |-> Nothing]

Idle == NewCall("none", << >>, NoResponse)

\* Statement k (operands st.n, st.t) of call l, already taken off l.todo, run
\* on device d; result is what the transport returns if the statement waits
\* for it.
Do(d, l, st, k, result) ==
    LET D(x) == [d |-> x, l |-> l]
        L(y) == [d |-> d, l |-> y]
    IN
    CASE k = "if (pending && timed out)" ->
            IF d.asyncPending /\ TimedOut(d.now, d.asyncStartTime, d.config.timeout)
            THEN L([l EXCEPT !.todo = << S("_asyncPending.store(false)") >> \o @])
            ELSE L(l)
      [] k = "if (pending) return false" ->
            IF d.asyncPending
            THEN L([l EXCEPT !.todo = << >>, !.ret = FALSE])
            ELSE L(l)
      [] k = "_asyncPending.store(true)" -> D([d EXCEPT !.asyncPending = TRUE])
      [] k = "_asyncPending.store(false)" -> D([d EXCEPT !.asyncPending = FALSE])
      [] k = "_asyncStartTime = millis()" -> D([d EXCEPT !.asyncStartTime = d.now])
      [] k = "readInputRegistersWithPriority" ->
            L([l EXCEPT !.reads = @ + 1,
                        !.bus = Append(@, << d.serverAddress, FUNCTION_CODE,
                                             TEMP_REGISTER, 1 >>)])
      [] k = "result: requestTemperature" ->
            L([l EXCEPT !.result = result,
                        !.todo = requestTemperatureTail(result) \o @])
      [] k = "result: performRead" ->
            L([l EXCEPT !.result = result,
                        !.todo = performReadTail(result) \o @])
      [] k = "_lastReading.valid = false" -> D([d EXCEPT !.lastReading.valid = FALSE])
      [] k = "_lastReading.valid = true" -> D([d EXCEPT !.lastReading.valid = TRUE])
      [] k = "_lastReading.error =" -> D([d EXCEPT !.lastReading.error = st.t])
      [] k = "_lastReading.celsius =" -> D([d EXCEPT !.lastReading.celsius = st.n])
      [] k = "_lastReading.timestamp = millis()" ->
            D([d EXCEPT !.lastReading.timestamp = d.now])
      [] k = "_connected = false" -> D([d EXCEPT !.connected = FALSE])
      [] k = "_connected = true" -> D([d EXCEPT !.connected = TRUE])
      [] k = "_connected = (_consecutive0x0000Errors < 3)" ->
            D([d EXCEPT !.connected = ConnectedAfterErrors(d.consecutive0x0000Errors)])
      [] k = "_consecutive0x0000Errors++" ->
            D([d EXCEPT !.consecutive0x0000Errors = (@ + 1) % Mod8])
      [] k = "_consecutive0x0000Errors = 0" ->
            D([d EXCEPT !.consecutive0x0000Errors = 0])
      [] k = "_lastErrorTime = millis()" -> D([d EXCEPT !.lastErrorTime = d.now])
      [] k = "if (_temperaturePtr) *_temperaturePtr =" ->
            IF d.temperaturePtr # NULL
            THEN D([d EXCEPT !.tempCell[d.temperaturePtr] = st.n])
            ELSE D(d)
      [] k = "if (_validityPtr) *_validityPtr = true" ->
            IF d.validityPtr # NULL
            THEN D([d EXCEPT !.validCell[d.validityPtr] = TRUE])
            ELSE D(d)
      [] k = "if (_validityPtr) *_validityPtr = false" ->
            IF d.validityPtr # NULL
            THEN D([d EXCEPT !.validCell[d.validityPtr] = FALSE])
            ELSE D(d)
      [] k = "return false" -> L([l EXCEPT !.todo = << >>, !.ret = FALSE])
      [] k = "return true" -> L([l EXCEPT !.todo = << >>, !.ret = TRUE])
      [] k = "success = false" -> L([l EXCEPT !.ret = FALSE])
      [] k = "success = true" -> L([l EXCEPT !.ret = TRUE])
      [] k = "if (!success) _connected = false" ->
            IF ~l.ret THEN D([d EXCEPT !.connected = FALSE]) ELSE D(d)
      [] k = "return success" -> L([l EXCEPT !.todo = << >>])
      [] k = "return _lastReading" ->
            L([l EXCEPT !.todo = << >>, !.value = d.lastReading])
      [] k = "data = _lastReading" -> L([l EXCEPT !.value = d.lastReading])
      [] k = "return _lastReading.valid" ->
            L([l EXCEPT !.todo = << >>, !.ret = d.lastReading.valid])
      [] k = "return !_asyncPending.load()" ->
            L([l EXCEPT !.todo = << >>, !.ret = ~d.asyncPending])

\* The next statement of call c.l run on device c.d
Exec(c, result) ==
    Do(c.d, [c.l EXCEPT !.todo = Tail(@)], Head(c.l.todo), Head(c.l.todo).k, result)

\* The call run to its return
RECURSIVE Run(_, _)
Run(c, result) ==
    IF c.l.todo = << >> THEN c ELSE Run(Exec(c, result), result)

-----------------------------------------------------------------------------
(* Construction *)

\* ANDRTF3::ANDRTF3(address), lines 35-60, and the application's cells, with
\* millis() at clock
ConstructedAt(address, clock) ==
    /\ config = [getDefaultConfig EXCEPT !.address = address]
    /\ serverAddress = address
    /\ lastReading = [celsius |-> 0, timestamp |-> Zero32, valid |-> FALSE, error |-> ""]
    /\ connected = FALSE
    /\ asyncPending = FALSE
    /\ asyncStartTime = Zero32
    /\ temperaturePtr = NULL
    /\ validityPtr = NULL
    /\ consecutive0x0000Errors = 0
    /\ lastErrorTime = Zero32
    /\ tempCell = [c \in Cells |-> 0]
    /\ validCell = [c \in Cells |-> FALSE]
    /\ now = clock
    /\ ticks = 0
    /\ call = [t \in Tasks |-> Idle]

\* The driver constructed as the clock starts
Constructed(address) == ConstructedAt(address, Zero32)

\* explicit ANDRTF3(uint8_t address = 3)
Init == Constructed(3)

-----------------------------------------------------------------------------
(* Single caller: every call runs to its return *)

\* The sentinel replies offered stop at MaxErrors consecutive ones.
Offered(result) ==
    (result.ok /\ result.values # << >> /\ IsErrorCode(result.values[1]))
        => consecutive0x0000Errors < MaxErrors

Complete(fn, body, response, result) ==
    \E r \in {Run([d |-> Dev, l |-> NewCall(fn, body, response)], result)} :
        /\ Store(r.d)
        /\ call' = [call EXCEPT ![MainTask] = r.l]
        /\ UNCHANGED << config, serverAddress, now, ticks >>

ReadTemperatureOf(results) ==
    \E result \in results :
        /\ Offered(result)
        /\ Complete("readTemperature", readTemperature, NoResponse, result)

RequestTemperatureOf(results) ==
    \E result \in results :
        /\ Offered(result)
        /\ Complete("requestTemperature", requestTemperature, NoResponse, result)

ReadTemperature == ReadTemperatureOf(ResultsOf(RawValues))

RequestTemperature == RequestTemperatureOf(ResultsOf(RawValues))

\* onAsyncResponse called with one of responses
OnAsyncResponseOf(responses) ==
    \E response \in responses :
        /\ (Len(response.data) >= 2
              /\ IsErrorCode(response.data[1] * 256 + response.data[2]))
             => consecutive0x0000Errors < MaxErrors
        /\ Complete("onAsyncResponse",
                    onAsyncResponse(response.functionCode, response.address,
                                    response.data),
                    response, NoResult)

OnAsyncResponse == OnAsyncResponseOf(Responses)

\* Mutant of BindTemperaturePointersOf: binding clears the validity cell
BindTemperaturePointersOf_ClearsCell(bindings) ==
    \E binding \in bindings :
        /\ temperaturePtr' = binding[1]
        /\ validityPtr' = binding[2]
        /\ validCell' = [c \in Cells |->
                            IF c = binding[2] THEN FALSE ELSE validCell[c]]
        /\ call' = [call EXCEPT ![MainTask] =
                        [NewCall("bindTemperaturePointers", << >>, NoResponse)
                            EXCEPT !.args = binding]]
        /\ UNCHANGED << config, serverAddress, lastReading, connected,
                        asyncPending, asyncStartTime, consecutive0x0000Errors,
                        lastErrorTime, tempCell, now, ticks >>

\* Mutant of BindTemperaturePointersOf: a partial binding is refused
BindTemperaturePointersOf_RefusesPartial(bindings) ==
    \E binding \in bindings :
        /\ temperaturePtr' =
              IF (binding[1] = NULL) = (binding[2] = NULL) THEN binding[1]
              ELSE temperaturePtr
        /\ validityPtr' =
              IF (binding[1] = NULL) = (binding[2] = NULL) THEN binding[2]
              ELSE validityPtr
        /\ call' = [call EXCEPT ![MainTask] =
                        [NewCall("bindTemperaturePointers", << >>, NoResponse)
                            EXCEPT !.args = binding]]
        /\ UNCHANGED << config, serverAddress, lastReading, connected,
                        asyncPending, asyncStartTime, consecutive0x0000Errors,
                        lastErrorTime, tempCell, validCell, now, ticks >>

\* bindTemperaturePointers(tempPtr, validPtr), lines 379-392, for the pointer
\* pairs in bindings
BindTemperaturePointersOf(bindings) ==
    \E binding \in bindings :
        /\ temperaturePtr' = binding[1]
        /\ validityPtr' = binding[2]
        /\ call' = [call EXCEPT ![MainTask] =
                        [NewCall("bindTemperaturePointers", << >>, NoResponse)
                            EXCEPT !.args = binding]]
        /\ UNCHANGED << config, serverAddress, lastReading, connected,
                        asyncPending, asyncStartTime, consecutive0x0000Errors,
                        lastErrorTime, tempCell, validCell, now, ticks >>

BindTemperaturePointers == BindTemperaturePointersOf(Bindings)

\* millis() advances by one of steps
TickOf(steps) ==
    \E step \in steps :
        /\ ticks < MaxTicks
        /\ now' = Add32(now, step)
        /\ ticks' = ticks + 1
        /\ UNCHANGED << config, serverAddress, lastReading, connected,
                        asyncPending, asyncStartTime, temperaturePtr,
                        validityPtr, consecutive0x0000Errors, lastErrorTime,
                        tempCell, validCell, call >>

Tick == TickOf(TickSteps)

Next ==
    \/ ReadTemperature
    \/ RequestTemperature
    \/ BindTemperaturePointers
    \/ Tick

Spec == Init /\ [][Next]_vars

-----------------------------------------------------------------------------
(* Single caller, cycles over the boundary values of the classification *)

ReadBoundary == ReadTemperatureOf(ResultsOf(BoundaryRawValues))

RequestBoundary == RequestTemperatureOf(ResultsOf(BoundaryRawValues))

NextClassify ==
    \/ ReadBoundary
    \/ RequestBoundary

SpecClassify == Init /\ [][NextClassify]_vars

-----------------------------------------------------------------------------
(* Single caller, cycles and response callbacks *)

\* Results of the cycles that run between response callbacks
FewResults ==
    {Failure("TIMEOUT"), Registers(<< 0 >>), Registers(<< 264 >>),
     Registers(<< 1251 >>)}

ReadBetweenResponses == ReadTemperatureOf(FewResults)

RequestBetweenResponses == RequestTemperatureOf(FewResults)

NextResponses ==
    \/ OnAsyncResponse
    \/ ReadBetweenResponses
    \/ RequestBetweenResponses
    \/ BindTemperaturePointers
    \/ Tick

SpecResponses == Init /\ [][NextResponses]_vars

-----------------------------------------------------------------------------
(* Two tasks calling requestTemperature, interleaved statement by statement *)

\* Results the transport returns to the tasks
TaskResults == {Registers(<< 0 >>), Registers(<< 264 >>)}

\* Clock advances while calls are under way: the default timeout, and one
\* millisecond more
TaskTickSteps == {200, 201}

\* Task t, between calls, calls requestTemperature
CallRequestTemperature(t) ==
    /\ call[t].todo = << >>
    /\ call' = [call EXCEPT ![t] =
                    NewCall("requestTemperature", requestTemperature, NoResponse)]
    /\ UNCHANGED << config, serverAddress, lastReading, connected, asyncPending,
                    asyncStartTime, temperaturePtr, validityPtr,
                    consecutive0x0000Errors, lastErrorTime, tempCell, validCell,
                    now, ticks >>

\* The statement task t runs next waits for the transport's result
Waits(t) ==
    /\ call[t].todo # << >>
    /\ Head(call[t].todo).k \in {"result: requestTemperature", "result: performRead"}

\* Task t runs the next statement of its call
Step(t) ==
    /\ call[t].todo # << >>
    /\ \E result \in (IF Waits(t) THEN TaskResults ELSE {NoResult}) :
         /\ Offered(result)
         /\ \E r \in {Exec([d |-> Dev, l |-> call[t]], result)} :
              /\ Store(r.d)
              /\ call' = [call EXCEPT ![t] = r.l]
    /\ UNCHANGED << config, serverAddress, now, ticks >>

TimePasses == TickOf(TaskTickSteps)

NextTasks ==
    \/ \E t \in Tasks : CallRequestTemperature(t)
    \/ \E t \in Tasks : Step(t)
    \/ TimePasses

SpecTasks == Init /\ [][NextTasks]_vars

-----------------------------------------------------------------------------
(* A caller's requestTemperature calls while another task's cycle is under *)
(* way and its transport may keep the response back                        *)

OtherTask == "task2"

\* The caller's requestTemperature, run to its return
RequestAmidCycle == RequestTemperatureOf(TaskResults)

NextAbandoned ==
    \/ CallRequestTemperature(OtherTask)
    \/ Step(OtherTask)
    \/ RequestAmidCycle
    \/ TimePasses

SpecAbandoned == Init /\ [][NextAbandoned]_vars

-----------------------------------------------------------------------------
(* Single caller, any constructor argument, setConfig and getConfig *)

\* Constructor arguments: the ends of uint8_t, the default and the last Modbus
\* address
Addresses == {0, 3, 247, 255}

\* Configs handed to setConfig: the test's custom values, all zero, an address
\* above 247, and the largest values of the fields
Configs ==
    {[address |-> 5, timeout |-> 200, retries |-> 5],
     [address |-> 0, timeout |-> 0, retries |-> 0],
     [address |-> 248, timeout |-> 100, retries |-> 1],
     [address |-> 247, timeout |-> 65535, retries |-> 255]}

InitAny == \E address \in Addresses : Constructed(address)

\* Mutant of SetConfigOf: the address is kept
SetConfigOf_KeepsAddress(configs) ==
    \E c \in configs :
        /\ config' = [c EXCEPT !.address = config.address]
        /\ call' = [call EXCEPT ![MainTask] =
                        [NewCall("setConfig", << >>, NoResponse)
                            EXCEPT !.args = << c >>]]
        /\ UNCHANGED << serverAddress, lastReading, connected, asyncPending,
                        asyncStartTime, temperaturePtr, validityPtr,
                        consecutive0x0000Errors, lastErrorTime, tempCell,
                        validCell, now, ticks >>

\* setConfig(config) { _config = config; }, for the configs in configs
SetConfigOf(configs) ==
    \E c \in configs :
        /\ config' = c
        /\ call' = [call EXCEPT ![MainTask] =
                        [NewCall("setConfig", << >>, NoResponse)
                            EXCEPT !.args = << c >>]]
        /\ UNCHANGED << serverAddress, lastReading, connected, asyncPending,
                        asyncStartTime, temperaturePtr, validityPtr,
                        consecutive0x0000Errors, lastErrorTime, tempCell,
                        validCell, now, ticks >>

SetConfig == SetConfigOf(Configs)

\* getConfig() { return _config; }
GetConfig ==
    /\ call' = [call EXCEPT ![MainTask] =
                    [NewCall("getConfig", << >>, NoResponse)
                        EXCEPT !.value = config]]
    /\ UNCHANGED << config, serverAddress, lastReading, connected, asyncPending,
                    asyncStartTime, temperaturePtr, validityPtr,
                    consecutive0x0000Errors, lastErrorTime, tempCell, validCell,
                    now, ticks >>

\* Results of the cycles run under the configs: the transport's errors, the
\* empty reply, an error code, a value in range and one above it
ConfigResults == ResultsOf({0, 264, 1251})

ReadConfigured == ReadTemperatureOf(ConfigResults)

RequestConfigured == RequestTemperatureOf(ConfigResults)

NextConfig ==
    \/ SetConfig
    \/ GetConfig
    \/ ReadConfigured
    \/ RequestConfigured

SpecConfig == InitAny /\ [][NextConfig]_vars

-----------------------------------------------------------------------------
(* One task running cycles statement by statement while another reads the  *)
(* Reading through getTemperatureData                                      *)

\* The entry points of a cycle, as << name, statements >>
Cycles ==
    {<< "readTemperature", readTemperature >>,
     << "requestTemperature", requestTemperature >>}

\* Task t, between calls, calls readTemperature or requestTemperature
CallCycle(t) ==
    /\ call[t].todo = << >>
    /\ \E cycle \in Cycles :
         call' = [call EXCEPT ![t] =
                     [NewCall(cycle[1], cycle[2], NoResponse)
                         EXCEPT !.entry = lastReading]]
    /\ UNCHANGED << config, serverAddress, lastReading, connected, asyncPending,
                    asyncStartTime, temperaturePtr, validityPtr,
                    consecutive0x0000Errors, lastErrorTime, tempCell, validCell,
                    now, ticks >>

\* Task t, between calls, calls getTemperatureData
CallGetTemperatureData(t) ==
    /\ call[t].todo = << >>
    /\ call' = [call EXCEPT ![t] =
                    NewCall("getTemperatureData", getTemperatureData, NoResponse)]
    /\ UNCHANGED << config, serverAddress, lastReading, connected, asyncPending,
                    asyncStartTime, temperaturePtr, validityPtr,
                    consecutive0x0000Errors, lastErrorTime, tempCell, validCell,
                    now, ticks >>

NextReader ==
    \/ CallCycle(MainTask)
    \/ Step(MainTask)
    \/ CallGetTemperatureData(OtherTask)
    \/ Step(OtherTask)
    \/ TimePasses

SpecReader == Init /\ [][NextReader]_vars

-----------------------------------------------------------------------------
(* Single caller, binding, rebinding and unbinding between cycles and      *)
(* response callbacks                                                      *)

\* Pointer pairs handed to bindTemperaturePointers: none, either pair of the
\* application's cells, and one pointer without the other
AllBindings ==
    {<< NULL, NULL >>, << "cellA", "cellA" >>, << "cellB", "cellB" >>,
     << "cellA", NULL >>, << NULL, "cellB" >>}

\* Results of the cycles: two values in range and an error code
BindResults == {Registers(<< 264 >>), Registers(<< 1250 >>), Registers(<< 0 >>)}

BindAny == BindTemperaturePointersOf(AllBindings)

ReadBound == ReadTemperatureOf(BindResults)

RequestBound == RequestTemperatureOf(BindResults)

NextBind ==
    \/ BindAny
    \/ ReadBound
    \/ RequestBound
    \/ OnAsyncResponse

SpecBind == Init /\ [][NextBind]_vars

-----------------------------------------------------------------------------
(* Single caller in asynchronous mode: requestTemperature, isReadComplete, *)
(* getAsyncResult                                                          *)

RequestAsync == RequestTemperatureOf(ResultsOf(RawValues))

IsReadComplete == Complete("isReadComplete", isReadComplete, NoResponse, NoResult)

GetAsyncResult == Complete("getAsyncResult", getAsyncResult, NoResponse, NoResult)

NextAsync ==
    \/ RequestAsync
    \/ IsReadComplete
    \/ GetAsyncResult
    \/ Tick

SpecAsync == Init /\ [][NextAsync]_vars

-----------------------------------------------------------------------------
(* Single caller, cycles and response callbacks around the error codes,    *)
(* with the value slot bound or not                                        *)

\* Raw register values: the error codes 0x0000 and 0xFFFF, their neighbours 1
\* and -2, and 264
ZeroResults ==
    {Registers(<< 0 >>), Registers(<< 65535 >>), Registers(<< 1 >>),
     Registers(<< 65534 >>), Registers(<< 264 >>)}

\* The same values as payloads of the device's response
ZeroResponses ==
    {Response(FUNCTION_CODE, TEMP_REGISTER, data) :
        data \in {<< 0, 0 >>, << 255, 255 >>, << 0, 1 >>, << 255, 254 >>}}

ReadNearZero == ReadTemperatureOf(ZeroResults)

RequestNearZero == RequestTemperatureOf(ZeroResults)

ResponseNearZero == OnAsyncResponseOf(ZeroResponses)

NextZero ==
    \/ ReadNearZero
    \/ RequestNearZero
    \/ ResponseNearZero
    \/ BindTemperaturePointers

SpecZero == Init /\ [][NextZero]_vars

-----------------------------------------------------------------------------
(* Single caller, cycles over every failure the transport and the sensor   *)
(* can report                                                              *)

\* The ModbusError values a failed read can carry
AllModbusErrors ==
    {"ILLEGAL_FUNCTION", "ILLEGAL_DATA_ADDRESS", "ILLEGAL_DATA_VALUE",
     "SLAVE_DEVICE_FAILURE", "TIMEOUT", "CRC_ERROR", "INVALID_RESPONSE",
     "QUEUE_FULL", "NOT_INITIALIZED", "COMMUNICATION_ERROR",
     "INVALID_PARAMETER", "RESOURCE_ERROR", "NULL_POINTER", "NOT_SUPPORTED",
     "MUTEX_ERROR", "INVALID_DATA_LENGTH", "DEVICE_NOT_FOUND",
     "RESOURCE_CREATION_FAILED", "INVALID_ADDRESS"}

\* One result of each failure class: every transport error, the empty reply,
\* 0x0000, 0xFFFF and a value above the range
FailingResults ==
    {Failure(e) : e \in AllModbusErrors}
        \cup {Registers(<< >>), Registers(<< 0 >>), Registers(<< 65535 >>),
              Registers(<< 1251 >>)}

ErrorResults == FailingResults \cup {Registers(<< 264 >>)}

ReadAnyFailure == ReadTemperatureOf(ErrorResults)

RequestAnyFailure == RequestTemperatureOf(ErrorResults)

NextErrors ==
    \/ ReadAnyFailure
    \/ RequestAnyFailure

SpecErrors == Init /\ [][NextErrors]_vars

-----------------------------------------------------------------------------
(* Single caller, requestTemperature cycles without end                    *)

\* Replies of the sensor: the error code 0x0000 and a value in range
WrapResults == {Registers(<< 0 >>), Registers(<< 264 >>)}

RequestAgain ==
    \E result \in WrapResults :
        Complete("requestTemperature", requestTemperature, NoResponse, result)

NextWrap == RequestAgain

SpecWrap == Init /\ [][NextWrap]_vars

-----------------------------------------------------------------------------
(* A task inside requestTemperature while the Modbus task delivers responses *)

\* Responses delivered meanwhile: too short, 0x0000, 264, and two that are not
\* the device's temperature read
CallbackResponses ==
    {Response(FUNCTION_CODE, TEMP_REGISTER, data) :
        data \in {<< 1 >>, << 0, 0 >>, << 1, 8 >>}}
        \cup {Response(3, TEMP_REGISTER, << 1, 8 >>),
              Response(FUNCTION_CODE, 51, << 1, 8 >>)}

\* The Modbus task's onAsyncResponse, run to its return
ResponseAmidCycle == OnAsyncResponseOf(CallbackResponses)

NextCallback ==
    \/ CallRequestTemperature(OtherTask)
    \/ Step(OtherTask)
    \/ ResponseAmidCycle
    \/ BindTemperaturePointers
    \/ Tick

SpecCallback == Init /\ [][NextCallback]_vars

-----------------------------------------------------------------------------
(* Two callers of requestTemperature as millis() wraps past zero *)

\* millis() at construction: 100 ms before the uint32_t wraps
LateClock == U32(Mod16 - 1, Mod16 - 100)

InitLate == ConstructedAt(3, LateClock)

SpecLate == InitLate /\ [][NextAbandoned]_vars

-----------------------------------------------------------------------------
(* The claims *)

\* The call the single caller ran last
Last == call[MainTask]

CycleFns == {"readTemperature", "requestTemperature"}

\* The classification the specification gives a raw register value
Signed16(r) == IF r >= 32768 THEN r - 65536 ELSE r

Classified(r) ==
    IF r = 0 \/ r = 65535 THEN "SensorFault"
    ELSE IF Signed16(r) < -400 \/ Signed16(r) > 1250 THEN "RangeViolation"
    ELSE "Valid"

\* Call c is a cycle whose read returned a register
ReadARegister(c) == c.fn \in CycleFns /\ c.result.ok /\ c.result.values # << >>

\* Call c is a cycle whose register value the specification classifies as class
CycleOf(c, class) == ReadARegister(c) /\ Classified(c.result.values[1]) = class

\* Call c is a cycle whose read failed at the transport
FailedAtTransport(c) ==
    c.fn \in CycleFns /\ c.reads = 1 /\ (~c.result.ok \/ c.result.values = << >>)

\* This step is a cycle of the single caller
CycleStep == call'[MainTask].fn \in CycleFns /\ ticks' = ticks

SentinelTexts == {"Sensor returned 0x0000", "Modbus error 0xFFFF"}

\* C1: a cycle whose read returned raw value r ends as a sensor fault if r is
\* 0x0000 or 0xFFFF, else as a range violation if r as a signed 16-bit integer
\* v is below -400 or above 1250, else Valid with exactly v stored.
C1_Classification ==
    ReadARegister(Last) =>
        LET r == Last.result.values[1]
        IN  CASE Classified(r) = "SensorFault" ->
                    /\ ~Last.ret
                    /\ ~lastReading.valid
                    /\ lastReading.error \in SentinelTexts
              [] Classified(r) = "RangeViolation" ->
                    /\ ~Last.ret
                    /\ ~lastReading.valid
                    /\ lastReading.error = "Temperature out of range"
              [] Classified(r) = "Valid" ->
                    /\ Last.ret
                    /\ lastReading.valid
                    /\ lastReading.error = ""
                    /\ lastReading.celsius = Signed16(r)

\* C1 witness: requestTemperature read 0xFE70 and stored -400.
C1_Witness ==
    /\ Last.fn = "requestTemperature"
    /\ Last.result = Registers(<< 65136 >>)
    /\ lastReading.valid
    /\ lastReading.celsius = -400

\* C2 as claimed: connected does not go from true to false in a cycle, through
\* either entry point, that rejects an error code and leaves fewer than 3
\* consecutive rejections.
C2_Hysteresis ==
    [][(CycleStep /\ CycleOf(call'[MainTask], "SensorFault")
            /\ connected /\ ~connected')
          => consecutive0x0000Errors' >= 3]_vars

\* C3: a Valid cycle, through either entry point and from any state, leaves
\* consecutiveRejections at 0 and connected true.
C3_ValidResets ==
    CycleOf(Last, "Valid") => consecutive0x0000Errors = 0 /\ connected

\* C3 witness: a Valid readTemperature after an error code had been counted at
\* time 1.
C3_Witness ==
    /\ Last.fn = "readTemperature"
    /\ CycleOf(Last, "Valid")
    /\ lastErrorTime = U32(0, 1)
    /\ consecutive0x0000Errors = 0
    /\ connected

\* C4: a cycle that ends in a sensor fault or range violation sets valid to
\* false and leaves value and timestamp as they were; every cycle leaves the
\* value of the most recent Valid cycle in Reading.value.
C4_StaleButLastKnownGood ==
    [][CycleStep =>
          IF CycleOf(call'[MainTask], "Valid")
          THEN lastReading'.celsius = Signed16(call'[MainTask].result.values[1])
          ELSE /\ lastReading'.celsius = lastReading.celsius
               /\ lastReading'.timestamp = lastReading.timestamp
               /\ ReadARegister(call'[MainTask]) => ~lastReading'.valid]_vars

\* C4 witness: readTemperature rejected 0x0000 at time 1 and the reading still
\* holds 264 read at time 0.
C4_Witness ==
    /\ Last.fn = "readTemperature"
    /\ Last.result = Registers(<< 0 >>)
    /\ now = U32(0, 1)
    /\ lastReading = [celsius |-> 264, timestamp |-> Zero32, valid |-> FALSE,
                      error |-> "Sensor returned 0x0000"]

\* C5: a cycle whose read fails at the transport (an error, or a reply with no
\* register) returns false, sets valid to false and error to the failure's
\* display string (the transport error's text, "No data returned" for the
\* empty reply), and leaves value and timestamp as they were.
C5_TransportFailure ==
    [][(CycleStep /\ FailedAtTransport(call'[MainTask])) =>
          /\ ~call'[MainTask].ret
          /\ ~lastReading'.valid
          /\ lastReading'.error =
                (IF call'[MainTask].result.ok THEN "No data returned"
                 ELSE modbusErrorToString(call'[MainTask].result.error))
          /\ lastReading'.celsius = lastReading.celsius
          /\ lastReading'.timestamp = lastReading.timestamp]_vars

\* C5 witness: requestTemperature met a CRC error at time 1 and the reading
\* still holds 264 read at time 0.
C5_Witness ==
    /\ Last.fn = "requestTemperature"
    /\ Last.result = Failure("CRC_ERROR")
    /\ ~Last.ret
    /\ now = U32(0, 1)
    /\ lastReading = [celsius |-> 264, timestamp |-> Zero32, valid |-> FALSE,
                      error |-> "CRC error"]

\* C6 as claimed: whenever Reading.valid is true, Reading.error is empty and
\* Reading.value lies in [-400, 1250].
C6_ReadingInvariant ==
    lastReading.valid =>
        lastReading.error = "" /\ lastReading.celsius \in -400..1250

\* C7 as claimed: with both slots bound, a Valid(v) cycle through either entry
\* point has written v into the value slot and true into the valid slot.
C7_PublishOnSuccess ==
    (CycleOf(Last, "Valid") /\ temperaturePtr # NULL /\ validityPtr # NULL) =>
        /\ tempCell[temperaturePtr] = Signed16(Last.result.values[1])
        /\ validCell[validityPtr] = TRUE

\* C8 as claimed: with both slots bound, after a cycle that ends in a sensor
\* fault or range violation the valid slot holds false.
C8_PublishOnRejection ==
    (ReadARegister(Last) /\ ~CycleOf(Last, "Valid")
        /\ temperaturePtr # NULL /\ validityPtr # NULL) =>
        validCell[validityPtr] = FALSE

Outstanding ==
    /\ asyncPending
    /\ Sub32(now, asyncStartTime)[1] = 0
    /\ Sub32(now, asyncStartTime)[2] <= config.timeout

\* The statement task t runs next
AtStatement(t, k) == call[t].todo # << >> /\ Head(call[t].todo).k = k

DeviceUnchanged ==
    UNCHANGED << lastReading, connected, consecutive0x0000Errors, lastErrorTime,
                 asyncPending, asyncStartTime, tempCell, validCell >>

\* C10: a requestTemperature call that finds a cycle outstanding within the
\* timeout, at its timeout check and at its check of the flag, changes nothing
\* at either and returns false from the latter without a register read.
C10_RefusedWhileOutstanding ==
    [][\A t \in Tasks :
          (call'[t] # call[t] /\ Outstanding) =>
              /\ AtStatement(t, "if (pending && timed out)") =>
                    /\ DeviceUnchanged
                    /\ call'[t] = [call[t] EXCEPT !.todo = Tail(@)]
              /\ AtStatement(t, "if (pending) return false") =>
                    /\ DeviceUnchanged
                    /\ call'[t].todo = << >>
                    /\ call'[t].ret = FALSE
                    /\ call'[t].reads = 0]_vars

\* C10 witness: a task's call was refused, without a read, 200 ms into the
\* other task's cycle, which is still outstanding.
C10_Witness ==
    \E t \in Tasks :
        /\ call[t].fn = "requestTemperature"
        /\ call[t].todo = << >>
        /\ call[t].reads = 0
        /\ call[t].ret = FALSE
        /\ asyncPending
        /\ asyncStartTime = Zero32
        /\ now = U32(0, 200)

\* The cycle outstanding has exceeded the timeout
Stale == asyncPending /\ ~Outstanding

C12_OneReadPerCycle ==
    (Last.fn \in CycleFns) =>
        /\ Last.reads = 1
        /\ Last.bus = << << serverAddress, FUNCTION_CODE, TEMP_REGISTER,
                            REGISTER_COUNT >> >>

\* C12 witness: with 5 retries configured, a readTemperature whose read timed
\* out has issued one read.
C12_Witness ==
    /\ Last.fn = "readTemperature"
    /\ config.retries = 5
    /\ Last.result = Failure("TIMEOUT")
    /\ Last.reads = 1

\* C19 as claimed: in every state Config.address lies in [1, 247] and
\* Config.timeout is above 0.
C19_ConfigInvariant ==
    config.address \in 1..247 /\ config.timeout > 0

C13_RangeViolationAsSensorFault ==
    [][(CycleStep /\ CycleOf(call'[MainTask], "RangeViolation")) =>
          /\ consecutive0x0000Errors' = consecutive0x0000Errors + 1
          /\ lastErrorTime' = now
          /\ connected' = (consecutive0x0000Errors' < 3)]_vars

\* C14 as claimed: from the same state and given the same transport reply,
\* readTemperature and requestTemperature return the same boolean and leave
\* the same Reading, consecutiveRejections, connected and bound cells.
C14_SameCycleLogic ==
    \A result \in ResultsOf(RawValues) :
        (Offered(result) /\ ~asyncPending) =>
            \A a \in {Run([d |-> Dev,
                           l |-> NewCall("readTemperature", readTemperature,
                                         NoResponse)], result)},
               b \in {Run([d |-> Dev,
                           l |-> NewCall("requestTemperature", requestTemperature,
                                         NoResponse)], result)} :
                /\ a.l.ret = b.l.ret
                /\ a.d.lastReading = b.d.lastReading
                /\ a.d.consecutive0x0000Errors = b.d.consecutive0x0000Errors
                /\ a.d.connected = b.d.connected
                /\ a.d.tempCell = b.d.tempCell
                /\ a.d.validCell = b.d.validCell

\* The Reading the cycle under way commits when it returns
AfterCycle(w) ==
    Run([d |-> Dev, l |-> call[w]], call[w].result).d.lastReading

\* C15 as claimed: a Reading returned by getTemperatureData while another
\* task's cycle is under way equals the Reading before that cycle or the
\* Reading the cycle commits.
C15_NoPartialUpdate ==
    [][(/\ call[OtherTask].fn = "getTemperatureData"
        /\ call[OtherTask].todo # << >>
        /\ call'[OtherTask].todo = << >>
        /\ call[MainTask].fn \in CycleFns
        /\ call[MainTask].todo # << >>) =>
            call'[OtherTask].value \in {call[MainTask].entry, AfterCycle(MainTask)}]_vars

\* Task t's requestTemperature has issued its register read and not returned
InFlight(t) ==
    /\ call[t].fn = "requestTemperature"
    /\ call[t].todo # << >>
    /\ call[t].reads = 1

\* C16 as claimed: of two tasks calling requestTemperature while no cycle is
\* outstanding (and before any time passes, so that none is stale), at most
\* one has a cycle in flight.
C16_OneCycleInFlight ==
    (ticks = 0) => ~(\A t \in Tasks : InFlight(t))

\* C17: bindTemperaturePointers makes the pair passed the binding and writes
\* no cell, nor the Reading, nor the fault state; every other call leaves the
\* binding alone and writes no cell but the currently bound ones (none when
\* unbound).
C17_BindReplaces ==
    [][IF call'[MainTask].fn = "bindTemperaturePointers"
       THEN /\ temperaturePtr' = call'[MainTask].args[1]
            /\ validityPtr' = call'[MainTask].args[2]
            /\ UNCHANGED << tempCell, validCell, lastReading, connected,
                            consecutive0x0000Errors, lastErrorTime >>
       ELSE /\ UNCHANGED << temperaturePtr, validityPtr >>
            /\ \A c \in Cells :
                 /\ c # temperaturePtr => tempCell'[c] = tempCell[c]
                 /\ c # validityPtr => validCell'[c] = validCell[c]]_vars

\* C17 witness: after rebinding from cellA to cellB a cycle wrote 1250 to
\* cellB and cellA still holds the 264 published before.
C17_Witness ==
    /\ Last.fn = "requestTemperature"
    /\ temperaturePtr = "cellB"
    /\ validityPtr = "cellB"
    /\ tempCell = [c \in Cells |-> IF c = "cellA" THEN 264 ELSE 1250]
    /\ validCell = [c \in Cells |-> TRUE]

\* Exactly one pointer of the pair is set
Partial(pair) == (pair[1] = NULL) # (pair[2] = NULL)

\* C18 as claimed: in every state the binding has both slots set or both unset.
C18_BothOrNeither == ~Partial(<< temperaturePtr, validityPtr >>)

\* C18 amended: the binding has both slots unset after construction, and
\* afterwards has exactly one slot set exactly when the most recent
\* bindTemperaturePointers call passed exactly one.
C18_PartialOnlyAsPassed ==
    /\ ~Partial(<< temperaturePtr, validityPtr >>)
    /\ [][Partial(<< temperaturePtr', validityPtr' >>) <=>
            IF call'[MainTask].fn = "bindTemperaturePointers"
            THEN Partial(call'[MainTask].args)
            ELSE Partial(<< temperaturePtr, validityPtr >>)]_vars

\* C18 witness: a cycle published 264 through a binding of the value slot
\* alone.
C18_Witness ==
    /\ Last.fn = "requestTemperature"
    /\ temperaturePtr = "cellA"
    /\ validityPtr = NULL
    /\ tempCell["cellA"] = 264
    /\ validCell["cellA"] = FALSE

\* C21 as claimed: a cycle whose reply is 0x0000 or 0xFFFF, through either
\* entry point, rejects the value, keeps the previous temperature and leaves
\* isConnected() false.
C21_SentinelMarksFailed ==
    [][(CycleStep /\ CycleOf(call'[MainTask], "SensorFault")) =>
          /\ ~call'[MainTask].ret
          /\ ~lastReading'.valid
          /\ lastReading'.celsius = lastReading.celsius
          /\ ~connected']_vars

\* No call has been made since construction
NoCallYet == call = [t \in Tasks |-> Idle] /\ ticks = 0

\* No Valid cycle has run yet: the value is 0 until a Valid cycle stores one,
\* which is never 0 and is kept by every later cycle
NoValidCycleYet == lastReading.celsius = 0

\* C25 as claimed: the constructed engine has valid = false, value = 0,
\* timestamp = 0, an empty error, no rejections, connected = false, no cycle in
\* flight and no slots bound; valid and connected are false until a Valid
\* reply.
C25_ConstructedState ==
    /\ NoCallYet =>
          /\ lastReading = [celsius |-> 0, timestamp |-> Zero32, valid |-> FALSE,
                            error |-> ""]
          /\ consecutive0x0000Errors = 0
          /\ ~connected
          /\ ~asyncPending
          /\ temperaturePtr = NULL
          /\ validityPtr = NULL
    /\ NoValidCycleYet => ~lastReading.valid /\ ~connected

\* C26: every register read a cycle issues asks for one input register
\* (function code 4) at address 50.
C26_OneRegisterAt50 ==
    \A t \in Tasks :
        \A i \in 1..Len(call[t].bus) :
            /\ call[t].bus[i][2] = 4
            /\ call[t].bus[i][3] = 50
            /\ call[t].bus[i][4] = 1

\* C26 witness: a requestTemperature cycle that stored 264 issued the one read
\* of register 50.
C26_Witness ==
    /\ Last.fn = "requestTemperature"
    /\ Last.ret
    /\ Last.bus = << << 3, 4, 50, 1 >> >>

\* C29: a cycle that fails at the transport leaves consecutiveRejections and
\* lastErrorTime as they were, and a cycle other than a sensor fault changes
\* the counter only by resetting it in a Valid cycle.
C29_TransportFailureKeepsCounter ==
    [][CycleStep =>
          /\ FailedAtTransport(call'[MainTask]) =>
                /\ consecutive0x0000Errors' = consecutive0x0000Errors
                /\ lastErrorTime' = lastErrorTime
          /\ (consecutive0x0000Errors' # consecutive0x0000Errors
                /\ ~CycleOf(call'[MainTask], "SensorFault")) =>
                /\ CycleOf(call'[MainTask], "Valid")
                /\ consecutive0x0000Errors' = 0]_vars

\* C29 witness: readTemperature met a timeout at time 1 after two rejections,
\* the later one at time 0, and the counter still stands at 2.
C29_Witness ==
    /\ Last.fn = "readTemperature"
    /\ Last.result = Failure("TIMEOUT")
    /\ now = U32(0, 1)
    /\ consecutive0x0000Errors = 2
    /\ lastErrorTime = Zero32

\* C23: getAsyncResult hands back the current Reading, the one
\* getTemperatureData returns, and returns Reading.valid; it changes neither
\* the Reading, the fault state, the flag, the binding nor the bound cells.
C23_FetchResultIsPure ==
    [][(call'[MainTask].fn = "getAsyncResult") =>
          /\ call'[MainTask].value = lastReading
          /\ call'[MainTask].value =
                Run([d |-> Dev,
                     l |-> NewCall("getTemperatureData", getTemperatureData,
                                   NoResponse)], NoResult).l.value
          /\ call'[MainTask].ret = lastReading.valid
          /\ DeviceUnchanged
          /\ UNCHANGED << temperaturePtr, validityPtr >>]_vars

\* C23 witness: getAsyncResult returned false with the stale value 264 after
\* a rejected cycle.
C23_Witness ==
    /\ Last.fn = "getAsyncResult"
    /\ ~Last.ret
    /\ Last.value.celsius = 264
    /\ Last.value.error = "Temperature out of range"
    /\ lastReading = Last.value

\* C24: with a single caller the flag is clear after every requestTemperature
\* call, whatever its outcome, so isReadComplete returns true and no
\* requestTemperature call is refused.
C24_CompletionImmediate ==
    /\ ~asyncPending
    /\ (Last.fn = "requestTemperature") => Last.reads = 1
    /\ (Last.fn = "isReadComplete") => Last.ret

\* C24 witness: isReadComplete returned true after a cycle that ended in a
\* range violation.
C24_Witness ==
    /\ Last.fn = "isReadComplete"
    /\ Last.ret
    /\ lastReading.error = "Temperature out of range"

\* C28 as claimed: in every state the address register reads are sent to,
\* getDeviceAddress(), equals getConfig().address.
C28_AddressAsConfigured ==
    /\ serverAddress = config.address
    /\ \A i \in 1..Len(Last.bus) : Last.bus[i][1] = config.address

\* The Reading is not a valid 0
NoValidZero == lastReading.valid => lastReading.celsius # 0

\* C22: in no state is Reading.valid true with Reading.value 0, and no cycle
\* or response callback writes 0 or -1 into a value cell.
C22_ZeroNeverValid ==
    /\ NoValidZero
    /\ [][/\ NoValidZero'
          /\ \A c \in Cells :
                tempCell'[c] # tempCell[c] => tempCell'[c] \notin {0, -1}]_vars

\* C22 witness: after 1 had been published to the bound cell, the response
\* callback was handed 0x0000 and the cell still holds 1.
C22_Witness ==
    /\ Last.fn = "onAsyncResponse"
    /\ Last.response.data = << 0, 0 >>
    /\ temperaturePtr = "cellA"
    /\ tempCell["cellA"] = 1
    /\ ~lastReading.valid
    /\ lastReading.celsius = 1

\* The error text entry point cycle leaves for each result of results, run
\* from the current state
ErrorTexts(cycle, results) ==
    [r \in results |->
        Run([d |-> Dev, l |-> NewCall(cycle[1], cycle[2], NoResponse)], r)
            .d.lastReading.error]

\* C27: after a failed cycle Reading.error is non-empty and after a Valid
\* cycle it is empty; a 0x0000 reply, a 0xFFFF reply, a range violation, an
\* empty reply and each transport error leave pairwise distinct texts.
C27_DistinctReasons ==
    /\ (Last.fn \in CycleFns) => (Last.ret <=> lastReading.error = "")
    /\ (Last.fn \in CycleFns) => (Last.ret <=> CycleOf(Last, "Valid"))
    /\ \A cycle \in Cycles :
          \A texts \in {ErrorTexts(cycle, FailingResults)} :
              \A r1, r2 \in FailingResults :
                  r1 # r2 => texts[r1] # texts[r2]

\* C27 witness: a requestTemperature cycle failed with INVALID_ADDRESS and
\* left that error's text.
C27_Witness ==
    /\ Last.fn = "requestTemperature"
    /\ Last.result = Failure("INVALID_ADDRESS")
    /\ ~Last.ret
    /\ lastReading.error = "Invalid address"

\* C30 as claimed: once three or more consecutive rejections have made
\* connected false, it becomes true again only through a Valid cycle.
C30_StaysDisconnected ==
    [][(consecutive0x0000Errors >= 3 /\ ~connected /\ connected') =>
          CycleOf(call'[MainTask], "Valid")]_vars

\* C31 as claimed: a cycle that starts with connected false and does not end
\* Valid leaves connected false.
C31_FailedCycleKeepsDisconnected ==
    [][(CycleStep /\ ~connected /\ ~CycleOf(call'[MainTask], "Valid")) =>
          ~connected']_vars

\* This step is the Modbus task's onAsyncResponse, beside the other task
ResponseStep ==
    /\ call'[MainTask].fn = "onAsyncResponse"
    /\ call'[OtherTask] = call[OtherTask]
    /\ ticks' = ticks

\* Response r is not a read of input register 50
Foreign(r) == r.functionCode # 4 \/ r.address # 50

\* C32: onAsyncResponse handed a response whose function code is not 0x04 or
\* whose register address is not 50 leaves the reading, the fault state, the
\* bound slots, the bindings and the in-flight flag unchanged.
C32_ForeignResponseIgnored ==
    [][(ResponseStep /\ Foreign(call'[MainTask].response)) =>
          /\ DeviceUnchanged
          /\ UNCHANGED << temperaturePtr, validityPtr >>]_vars

\* C32 witness: a response for register 51 arrived while the other task's
\* cycle was in flight and cells were bound; the flag is still set.
C32_Witness ==
    /\ Last.fn = "onAsyncResponse"
    /\ Last.response.address = 51
    /\ Waits(OtherTask)
    /\ asyncPending
    /\ temperaturePtr = "cellA"

\* C33: onAsyncResponse handed a response for function code 0x04 and register
\* 50 clears the in-flight flag whatever the payload; when the payload is
\* shorter than 2 bytes it sets valid false, error "Invalid response length"
\* and connected false, and leaves the value, the timestamp and the count of
\* consecutive rejections as they were.
C33_MatchingResponseClearsFlag ==
    [][(ResponseStep /\ ~Foreign(call'[MainTask].response)) =>
          /\ ~asyncPending'
          /\ Len(call'[MainTask].response.data) < 2 =>
                /\ ~lastReading'.valid
                /\ lastReading'.error = "Invalid response length"
                /\ ~connected'
                /\ lastReading'.celsius = lastReading.celsius
                /\ lastReading'.timestamp = lastReading.timestamp
                /\ consecutive0x0000Errors' = consecutive0x0000Errors]_vars

\* C33 witness: after a response of 264 and then one of 0x0000, a one-byte
\* response arrived while the other task's cycle was in flight at a later
\* time; the flag is clear and value, timestamp and count are kept.
C33_Witness ==
    /\ Last.fn = "onAsyncResponse"
    /\ Last.response.data = << 1 >>
    /\ Waits(OtherTask)
    /\ ~asyncPending
    /\ lastReading.error = "Invalid response length"
    /\ ~connected
    /\ lastReading.celsius = 264
    /\ lastReading.timestamp # now
    /\ consecutive0x0000Errors = 1

\* C34 as claimed: for every 2-byte payload, onAsyncResponse leaves the
\* reading, the fault state and the bound cells as a requestTemperature cycle
\* leaves them for the raw register value data[0]*256 + data[1], from the same
\* state.
C34_CallbackAsCycle ==
    \A data \in {p \in Payloads : Len(p) = 2} :
        \A result \in {Registers(<< data[1] * 256 + data[2] >>)} :
            (Offered(result) /\ ~asyncPending) =>
                \A a \in {Run([d |-> Dev,
                               l |-> NewCall("onAsyncResponse",
                                             onAsyncResponse(4, 50, data),
                                             Response(4, 50, data))],
                              NoResult)},
                   b \in {Run([d |-> Dev,
                               l |-> NewCall("requestTemperature",
                                             requestTemperature, NoResponse)],
                              result)} :
                    /\ a.d.lastReading = b.d.lastReading
                    /\ a.d.connected = b.d.connected
                    /\ a.d.consecutive0x0000Errors = b.d.consecutive0x0000Errors
                    /\ a.d.lastErrorTime = b.d.lastErrorTime
                    /\ a.d.tempCell = b.d.tempCell
                    /\ a.d.validCell = b.d.validCell

\* No more than the timeout has passed since asyncStartTime: counting on from
\* asyncStartTime modulo 2^32, the clock is met within timeout milliseconds
WithinTimeout ==
    \E elapsed \in 0..config.timeout : Add32(asyncStartTime, elapsed) = now

\* This step is the caller's requestTemperature, beside the other task
RequestStep ==
    /\ call'[MainTask].fn = "requestTemperature"
    /\ call'[OtherTask] = call[OtherTask]
    /\ ticks' = ticks

C35_WitnessRefused ==
    /\ Waits(OtherTask)
    /\ Last.fn = "requestTemperature"
    /\ Last.reads = 0
    /\ asyncPending
    /\ asyncStartTime = LateClock
    /\ now = U32(0, 100)

====
